---------------------------- MODULE Spec2Model ----------------------------
(***************************************************************************)
(* Model of the agent orchestration core of the logistics chat agent:      *)
(* ToolExecutor (registry, parser, dispatcher) and AgentService            *)
(* (process_message) of src/services/agent_service.py, driven by the chat  *)
(* handler of app.py.  Texts are TLA+ strings; a character is a string of  *)
(* length one.                                                             *)
(***************************************************************************)
EXTENDS Integers, Sequences, FiniteSets, TLC

(***************************************************************************)
(* Characters and the Python string operations the code uses.              *)
(***************************************************************************)
CharAt(s, i) == IF i >= 1 /\ i <= Len(s) THEN SubSeq(s, i, i) ELSE ""

LowerLetters ==
    {"a","b","c","d","e","f","g","h","i","j","k","l","m",
     "n","o","p","q","r","s","t","u","v","w","x","y","z"}

UpperLetters ==
    {"A","B","C","D","E","F","G","H","I","J","K","L","M",
     "N","O","P","Q","R","S","T","U","V","W","X","Y","Z"}

\* str.isdigit() characters for which int() succeeds
DecimalDigits == {"0","1","2","3","4","5","6","7","8","9"}

\* str.isdigit() characters for which int() raises ValueError
SuperscriptDigits == {"²","³","¹"}

\* the class \w of the re module
WordChars ==
    LowerLetters \cup UpperLetters \cup DecimalDigits \cup SuperscriptDigits \cup {"_"}

\* the class \s of the re module, and the characters str.strip() removes
SpaceChars == {" ", "\t", "\n", "\r", "\f"}

QuoteChars == {"\"", "'"}

DigitValue(c) ==
    CASE c = "0" -> 0 [] c = "1" -> 1 [] c = "2" -> 2 [] c = "3" -> 3
      [] c = "4" -> 4 [] c = "5" -> 5 [] c = "6" -> 6 [] c = "7" -> 7
      [] c = "8" -> 8 [] c = "9" -> 9

LowerChar(c) ==
    CASE c = "A" -> "a" [] c = "B" -> "b" [] c = "C" -> "c" [] c = "D" -> "d"
      [] c = "E" -> "e" [] c = "F" -> "f" [] c = "G" -> "g" [] c = "H" -> "h"
      [] c = "I" -> "i" [] c = "J" -> "j" [] c = "K" -> "k" [] c = "L" -> "l"
      [] c = "M" -> "m" [] c = "N" -> "n" [] c = "O" -> "o" [] c = "P" -> "p"
      [] c = "Q" -> "q" [] c = "R" -> "r" [] c = "S" -> "s" [] c = "T" -> "t"
      [] c = "U" -> "u" [] c = "V" -> "v" [] c = "W" -> "w" [] c = "X" -> "x"
      [] c = "Y" -> "y" [] c = "Z" -> "z" [] OTHER -> c

RECURSIVE Lower(_)
Lower(s) == IF s = "" THEN "" ELSE LowerChar(Head(s)) \o Lower(Tail(s))

\* str.strip(chars): drop the characters of cs from both ends
RECURSIVE LStrip(_, _)
LStrip(s, cs) == IF s # "" /\ Head(s) \in cs THEN LStrip(Tail(s), cs) ELSE s

RECURSIVE RStrip(_, _)
RStrip(s, cs) ==
    IF s # "" /\ CharAt(s, Len(s)) \in cs
    THEN RStrip(SubSeq(s, 1, Len(s) - 1), cs)
    ELSE s

Strip(s, cs) == RStrip(LStrip(s, cs), cs)

\* str.isdigit(): non-empty and every character a digit
IsDigit(s) ==
    /\ s # ""
    /\ \A i \in 1..Len(s) : CharAt(s, i) \in DecimalDigits \cup SuperscriptDigits

\* int(s) succeeds exactly on the decimal digits
IntRaises(s) == \E i \in 1..Len(s) : CharAt(s, i) \notin DecimalDigits

RECURSIVE IntOf(_)
IntOf(s) ==
    IF s = "" THEN 0
    ELSE 10 * IntOf(SubSeq(s, 1, Len(s) - 1)) + DigitValue(CharAt(s, Len(s)))

\* `sub in s`
Contains(s, sub) ==
    \E i \in 1..(Len(s) - Len(sub) + 1) : SubSeq(s, i, i + Len(sub) - 1) = sub

\* sep.join(parts)
RECURSIVE Join(_, _)
Join(parts, sep) ==
    IF parts = <<>> THEN ""
    ELSE IF Len(parts) = 1 THEN parts[1]
    ELSE parts[1] \o sep \o Join(Tail(parts), sep)


(***************************************************************************)
(* ToolExecutor.parse_tool_calls: the two patterns and the coercion.       *)
(***************************************************************************)
TOOL_CALL_MARKER == "TOOL_CALL:"

StartsWithAt(s, i, lit) ==
    /\ i + Len(lit) - 1 <= Len(s)
    /\ SubSeq(s, i, i + Len(lit) - 1) = lit

\* the first position >= i whose character is not in cs (Len(s)+1 if none)
RECURSIVE SkipChars(_, _, _)
SkipChars(s, i, cs) ==
    IF i <= Len(s) /\ CharAt(s, i) \in cs THEN SkipChars(s, i + 1, cs) ELSE i

\* the first position >= i holding character c, 0 if there is none
RECURSIVE FindChar(_, _, _)
FindChar(s, i, c) ==
    IF i > Len(s) THEN 0
    ELSE IF CharAt(s, i) = c THEN i
    ELSE FindChar(s, i + 1, c)

NoMatch == [ok |-> FALSE]

\* the last position >= i holding character c, 0 if there is none
FindLastChar(s, i, c) ==
    LET at == {j \in i..Len(s) : CharAt(s, j) = c}
    IN  IF at = {} THEN 0 ELSE CHOOSE j \in at : \A k \in at : k <= j

\* faulty variant: the body is greedy and runs to the last closing parenthesis
ToolPatternAt_Greedy(s, p) ==
    IF ~StartsWithAt(s, p, TOOL_CALL_MARKER) THEN NoMatch
    ELSE LET q == SkipChars(s, p + Len(TOOL_CALL_MARKER), SpaceChars)
             e == SkipChars(s, q, WordChars)
             r == FindLastChar(s, e + 1, ")")
         IN  IF e > q /\ CharAt(s, e) = "(" /\ r # 0
             THEN [ok |-> TRUE,
                   tool_name |-> SubSeq(s, q, e - 1),
                   params_str |-> SubSeq(s, e + 1, r - 1),
                   next |-> r + 1]
             ELSE NoMatch

\* one match of  TOOL_CALL:\s*(\w+)\((.*?)\)  (DOTALL) starting at p
ToolPatternAt(s, p) ==
    IF ~StartsWithAt(s, p, TOOL_CALL_MARKER) THEN NoMatch
    ELSE LET q == SkipChars(s, p + Len(TOOL_CALL_MARKER), SpaceChars)
             e == SkipChars(s, q, WordChars)
             r == FindChar(s, e + 1, ")")
         IN  IF e > q /\ CharAt(s, e) = "(" /\ r # 0
             THEN [ok |-> TRUE,
                   tool_name |-> SubSeq(s, q, e - 1),
                   params_str |-> SubSeq(s, e + 1, r - 1),
                   next |-> r + 1]
             ELSE NoMatch

\* re.findall(tool_pattern, text, re.DOTALL) scanning from p
RECURSIVE ToolMatches(_, _)
ToolMatches(s, p) ==
    IF p > Len(s) THEN <<>>
    ELSE LET m == ToolPatternAt(s, p)
         IN  IF m.ok
             THEN <<[tool_name |-> m.tool_name, params_str |-> m.params_str]>>
                      \o ToolMatches(s, m.next)
             ELSE ToolMatches(s, p + 1)

\* `$` without MULTILINE: the end, or just before a final line break
AtDollar(s, j) == j = Len(s) + 1 \/ (j = Len(s) /\ CharAt(s, j) = "\n")

CommaOrEnd(s, j) == CharAt(s, j) = "," \/ AtDollar(s, j)

\* ["\']?(?:,|$) matches at j
ParamTailAt(s, j) ==
    \/ CharAt(s, j) \in QuoteChars /\ CommaOrEnd(s, j + 1)
    \/ CommaOrEnd(s, j)

\* where the match of ["\']?(?:,|$) at j ends
ParamTailEnd(s, j) ==
    LET k == IF CharAt(s, j) \in QuoteChars /\ CommaOrEnd(s, j + 1) THEN j + 1 ELSE j
    IN  IF CharAt(s, k) = "," THEN k + 1 ELSE k

\* the lazy (.*?): the first j >= i where the tail matches, 0 when a line
\* break (which `.` does not match) comes first
RECURSIVE LazyValueEnd(_, _)
LazyValueEnd(s, j) ==
    IF ParamTailAt(s, j) THEN j
    ELSE IF j > Len(s) \/ CharAt(s, j) = "\n" THEN 0
    ELSE LazyValueEnd(s, j + 1)

\* one match of  (\w+)=["\']?(.*?)["\']?(?:,|$)  starting at p
ParamPatternAt(s, p) ==
    LET e  == SkipChars(s, p, WordChars)
        v0 == e + 1
        a  == IF CharAt(s, v0) \in QuoteChars THEN LazyValueEnd(s, v0 + 1) ELSE 0
        b  == LazyValueEnd(s, v0)
    IN  IF ~(e > p /\ CharAt(s, e) = "=") THEN NoMatch
        ELSE IF a # 0
        THEN [ok |-> TRUE, param_name |-> SubSeq(s, p, e - 1),
              param_value |-> SubSeq(s, v0 + 1, a - 1), next |-> ParamTailEnd(s, a)]
        ELSE IF b # 0
        THEN [ok |-> TRUE, param_name |-> SubSeq(s, p, e - 1),
              param_value |-> SubSeq(s, v0, b - 1), next |-> ParamTailEnd(s, b)]
        ELSE NoMatch

\* re.findall(param_pattern, params_str) scanning from p
RECURSIVE ParamMatches(_, _)
ParamMatches(s, p) ==
    IF p > Len(s) THEN <<>>
    ELSE LET m == ParamPatternAt(s, p)
         IN  IF m.ok
             THEN <<[param_name |-> m.param_name, param_value |-> m.param_value]>>
                      \o ParamMatches(s, m.next)
             ELSE ParamMatches(s, p + 1)

\* argument values: None, an int, or a str
NoneValue == [t |-> "none"]
IntValue(n) == [t |-> "int", n |-> n]
StrValue(s) == [t |-> "str", s |-> s]

\* param_value.strip().strip('"').strip("'")
StripValue(v) == Strip(Strip(Strip(v, SpaceChars), {"\""}), {"'"})

\* faulty variant: only the spelling None is read as null
Coerce_OnlyNoneAsWritten(raw) ==
    LET v == StripValue(raw)
    IN  IF v = "None" THEN NoneValue
        ELSE IF IsDigit(v) THEN IntValue(IntOf(v))
        ELSE StrValue(v)

\* lines 117-123: the value stored for a raw value whose int() does not raise
Coerce(raw) ==
    LET v == StripValue(raw)
    IN  IF Lower(v) = "none" THEN NoneValue
        ELSE IF IsDigit(v) THEN IntValue(IntOf(v))
        ELSE StrValue(v)

\* int(param_value) raises ValueError for this raw value
CoerceRaises(raw) ==
    LET v == StripValue(raw)
    IN  Lower(v) # "none" /\ IsDigit(v) /\ IntRaises(v)

\* a dict is a sequence of <<key, value>> in insertion order, keys unique
DictKeys(d) == {d[i][1] : i \in 1..Len(d)}

DictGet(d, k) == LET i == CHOOSE i \in 1..Len(d) : d[i][1] = k IN d[i][2]

\* d[k] = v
DictSet(d, k, v) ==
    IF k \in DictKeys(d)
    THEN [i \in 1..Len(d) |-> IF d[i][1] = k THEN <<k, v>> ELSE d[i]]
    ELSE Append(d, <<k, v>>)

\* lines 110-123: the params dict of one match
RECURSIVE ParamsOf(_, _)
ParamsOf(pm, d) ==
    IF pm = <<>> THEN d
    ELSE ParamsOf(Tail(pm), DictSet(d, pm[1].param_name, Coerce(pm[1].param_value)))

ParseParams(params_str) ==
    IF Strip(params_str, SpaceChars) = "" THEN <<>>
    ELSE ParamsOf(ParamMatches(params_str, 1), <<>>)

ParamsRaise(params_str) ==
    /\ Strip(params_str, SpaceChars) # ""
    /\ LET pm == ParamMatches(params_str, 1)
       IN  \E i \in 1..Len(pm) : CoerceRaises(pm[i].param_value)

\* the text of the ValueError of the first failing int()
ParamsRaiseMessage(params_str) ==
    LET pm == ParamMatches(params_str, 1)
        i  == CHOOSE i \in 1..Len(pm) :
                 /\ CoerceRaises(pm[i].param_value)
                 /\ \A j \in 1..(i - 1) : ~CoerceRaises(pm[j].param_value)
    IN  "invalid literal for int() with base 10: '"
            \o StripValue(pm[i].param_value) \o "'"

\* parse_tool_calls raises: some match before or at the first failure fails
ParseRaises(text) ==
    LET ms == ToolMatches(text, 1)
    IN  \E i \in 1..Len(ms) : ParamsRaise(ms[i].params_str)

ParseRaiseMessage(text) ==
    LET ms == ToolMatches(text, 1)
        i  == CHOOSE i \in 1..Len(ms) :
                 /\ ParamsRaise(ms[i].params_str)
                 /\ \A j \in 1..(i - 1) : ~ParamsRaise(ms[j].params_str)
    IN  ParamsRaiseMessage(ms[i].params_str)

\* faulty variant: a call whose body gives no parameter is left out
parse_tool_calls_SkipsUnsplit(text) ==
    LET ms == ToolMatches(text, 1)
        kept == SelectSeq(ms, LAMBDA m : \/ Strip(m.params_str, SpaceChars) = ""
                                          \/ ParamMatches(m.params_str, 1) # <<>>)
    IN  [i \in 1..Len(kept) |->
            [tool_name |-> kept[i].tool_name,
             parameters |-> ParseParams(kept[i].params_str)]]

\* parse_tool_calls(text) when it does not raise
parse_tool_calls(text) ==
    LET ms == ToolMatches(text, 1)
    IN  [i \in 1..Len(ms) |->
            [tool_name |-> ms[i].tool_name,
             parameters |-> ParseParams(ms[i].params_str)]]


(***************************************************************************)
(* ToolExecutor._register_tools: the registry, in insertion order.  Each   *)
(* entry carries the name, the description and the parameter hints.        *)
(***************************************************************************)
tools ==
    << [name |-> "get_dataset_summary",
        description |-> "Get an overview summary of the shipments dataset including total shipments, date range, routes, warehouses, and basic statistics.",
        parameters |-> <<>>],
       [name |-> "get_statistical_summary",
        description |-> "Get detailed statistical analysis including mean, median, min, max, and standard deviation for delivery times and delays. Use this for statistical questions about median, mean, standard deviation, etc.",
        parameters |-> <<>>],
       [name |-> "analyze_delays",
        description |-> "Analyze delays in shipments above. Shows delay reasons, affected routes, and warehouses.",
        parameters |-> <<>>],
       [name |-> "analyze_route_performance",
        description |-> "Analyze performance of a specific route or compare all routes. Shows delivery times, delays, and warehouse usage.",
        parameters |-> << <<"route", "Specific route to analyze (e.g., 'Route A') or None for all routes">> >>],
       [name |-> "analyze_warehouse_performance",
        description |-> "Analyze performance of a specific warehouse or compare all warehouses. Shows delivery times, delays, and route usage.",
        parameters |-> << <<"warehouse", "Specific warehouse to analyze (e.g., 'WH1') or None for all warehouses">> >>],
       [name |-> "analyze_by_time_period",
        description |-> "Analyze shipments for a specific time period. Can filter by month (e.g., 'October', 'Oct'), year (e.g., 2024), or date range (start_date and end_date in YYYY-MM-DD format). Shows statistics, delays, and performance for that period.",
        parameters |-> << <<"month", "Month name (full or 3-letter abbreviation, e.g., 'October' or 'Oct')">>,
                          <<"year", "Year as integer (e.g., 2024)">>,
                          <<"start_date", "Start date in YYYY-MM-DD format">>,
                          <<"end_date", "End date in YYYY-MM-DD format">> >>],
       [name |-> "get_recommendations",
        description |-> "Generate actionable recommendations based on comprehensive data analysis. Identifies issues and suggests improvements.",
        parameters |-> <<>>],
       [name |-> "search_shipments",
        description |-> "Search for specific shipments based on natural language query (e.g., 'route A with delays', 'warehouse WH1 traffic issues').",
        parameters |-> << <<"query", "Natural language search query">> >>] >>

\* ToolExecutor.tools, set by __init__ to what _register_tools returns
VARIABLE registry

\* self.tools.keys(), in insertion order
ToolNames == [i \in 1..Len(registry) |-> registry[i].name]

\* tool_name in self.tools
Registered(tool_name) == \E i \in 1..Len(registry) : registry[i].name = tool_name

(***************************************************************************)
(* ToolExecutor.get_tools_description.                                     *)
(***************************************************************************)
\* line 89: ", ".join([f"{k}: {v}" for k, v in tool_info['parameters'].items()])
ParameterHints(parameters) ==
    Join([i \in 1..Len(parameters) |-> parameters[i][1] \o ": " \o parameters[i][2]],
         ", ")

\* lines 87-90: the text of one tool
ToolDescription(tool) ==
    LET desc == "- " \o tool.name \o ": " \o tool.description
    IN  IF tool.parameters # <<>>
        THEN desc \o "\n  Parameters: " \o ParameterHints(tool.parameters)
        ELSE desc

\* faulty variant: the tools are described last registered first
DescriptionOf_Reversed(reg) ==
    Join([i \in 1..Len(reg) |-> ToolDescription(reg[Len(reg) + 1 - i])], "\n\n")

\* lines 85-92: the texts of the tools of a registry, in its order
DescriptionOf(reg) ==
    Join([i \in 1..Len(reg) |-> ToolDescription(reg[i])], "\n\n")

get_tools_description == DescriptionOf(registry)

(***************************************************************************)
(* The callables of the registry: the keyword parameters each DataAnalyzer *)
(* method declares.  A call with any other keyword, or without a required  *)
(* one, raises TypeError before the method body runs.                      *)
(***************************************************************************)
OptionalKeywords(tool_name) ==
    CASE tool_name = "analyze_route_performance" -> {"route"}
      [] tool_name = "analyze_warehouse_performance" -> {"warehouse"}
      [] tool_name = "analyze_by_time_period" ->
             {"month", "year", "start_date", "end_date"}
      [] OTHER -> {}

RequiredKeywords(tool_name) ==
    IF tool_name = "search_shipments" THEN {"query"} ELSE {}

\* tool_function(**kwargs) cannot bind its arguments
CallableRejects(tool_name, kwargs) ==
    \/ ~(DictKeys(kwargs) \subseteq
            OptionalKeywords(tool_name) \cup RequiredKeywords(tool_name))
    \/ ~(RequiredKeywords(tool_name) \subseteq DictKeys(kwargs))

(***************************************************************************)
(* ToolExecutor.execute_tool and execute_tool_calls.                       *)
(***************************************************************************)
\* the positional and the bound parameter of execute_tool(self, tool_name, **kwargs):
\* a keyword of the same name cannot be passed through **params
ExecuteToolOwnNames == {"self", "tool_name"}

\* self.execute_tool(tool_name, **params) raises TypeError at the call
ExecuteToolRejects(params) == DictKeys(params) \cap ExecuteToolOwnNames # {}

ExecuteToolRejectMessage(params) ==
    LET i == CHOOSE i \in 1..Len(params) :
                 /\ params[i][1] \in ExecuteToolOwnNames
                 /\ \A j \in 1..(i - 1) : params[j][1] \notin ExecuteToolOwnNames
    IN  "ToolExecutor.execute_tool() got multiple values for argument '"
            \o params[i][1] \o "'"

\* line 144
ToolNotFoundText(tool_name) ==
    "Error: Tool '" \o tool_name \o "' not found. Available tools: "
        \o Join(ToolNames, ", ")

\* line 155
ToolErrorText(tool_name, message) ==
    "Error executing " \o tool_name \o ": " \o message

\* lines 150-153: what execute_tool returns for a callable that returned
\* plain text, or a pair whose first component is the text
ToolReturnText(kind, text) == text

\* lines 146-155: the text execute_tool returns for an outcome of the callable
ExecuteToolResult(tool_name, out) ==
    IF out.kind = "raise" THEN ToolErrorText(tool_name, out.text)
    ELSE ToolReturnText(out.kind, out.text)

\* lines 175-179
LogEntry(tool_name, params, now) ==
    [tool |-> tool_name, params |-> params, timestamp |-> now]

\* line 183
ResultSection(tool_name, result) == "**Tool: " \o tool_name \o "**\n\n" \o result

\* line 185
CombinedResults(results) == Join(results, "\n\n---\n\n")

(***************************************************************************)
(* AgentService.process_message: the two outbound message sequences.       *)
(***************************************************************************)
Message(role, content) == [role |-> role, content |-> content]

\* lines 219-221
InitialMessages(sys, conversation_history, user_message) ==
    <<Message("system", sys)>> \o conversation_history
        \o <<Message("user", user_message)>>

\* lines 240-244
ToolResultPrompt(tool_results) ==
    "Here are the tool results:\n\n" \o tool_results
        \o "\n\nBased on these tool results, answer the user's original question directly and concisely. Focus ONLY on what the user asked for. Extract the specific information they requested (e.g., if they asked for 'average delay', provide that number clearly). Do not repeat all the data - just answer their question."

\* faulty variant: the assistant message holding the first response is left out
FinalMessages_NoAssistant(first, initial, tool_results) ==
    first \o <<Message("user", ToolResultPrompt(tool_results))>>

\* lines 237-245
FinalMessages(first, initial, tool_results) ==
    first \o <<Message("assistant", initial),
               Message("user", ToolResultPrompt(tool_results))>>


(***************************************************************************)
(* Bounds and the inputs of the session.                                   *)
(***************************************************************************)
\* user turns per session
MaxTurns == 2

\* the last instant datetime.now() can return
MaxClock == 1

\* the system prompts AgentService can be constructed with
SystemPrompts == {"You are Hermes, an intelligent and friendly AI logistics assistant."}

\* what the user types into the chat input
Prompts == {"How is Route A doing?"}

\* texts the LLM returns on the first call of a turn
InitialTexts ==
    {"Hi! I'm Hermes, your logistics assistant.",
     "TOOL_CALL: get_dataset_summary()",
     "Let me check.\nTOOL_CALL: analyze_route_performance(route=\"Route A\")\nTOOL_CALL: route_report(id=7)\nTOOL_CALL: analyze_route_performance(route=\"Route A\")",
     "TOOL_CALL: get_recommendations(limit=3)",
     "TOOL_CALL: search_shipments(tool_name=\"late\")",
     "TOOL_CALL: get_recommendations(limit=3)\nTOOL_CALL: search_shipments(tool_name=\"late\")\nTOOL_CALL: get_dataset_summary()",
     "TOOL_CALL: lookup(self=None)",
     "TOOL_CALL: analyze_route_performance(route = \"Route Z\")",
     "TOOL_CALL: analyze_route_performance(route=\"Route Z\")\nTOOL_CALL: analyze_by_time_period(start_date=\"next week\")",
     "TOOL_CALL: analyze_by_time_period(year=²)"}

\* texts the LLM returns on the second call of a turn
FinalTexts ==
    {"Route A is on time.",
     "TOOL_CALL: get_dataset_summary()"}

\* what generate_response raises when the provider fails
LLMErrors == {"Gemini service not initialized. Check API key."}

\* what a registered callable does once its arguments are bound
ToolOutcomes ==
    {[kind |-> "text", text |-> "Total Shipments: 500"],
     [kind |-> "pair", text |-> "Total Shipments: 500"],
     [kind |-> "raise", text |-> "No data loaded"]}

\* the callable has been called and has not returned
Pending == [kind |-> "pending", text |-> ""]

\* the TypeError of a callable that cannot bind its arguments
RejectOutcome(tool_name) ==
    [kind |-> "raise",
     text |-> "DataAnalyzer." \o tool_name \o "() got unexpected arguments"]

(***************************************************************************)
(* DataAnalyzer: what the three filtering callables do with an argument    *)
(* that names nothing in the loaded dataset or cannot be read as a date.   *)
(***************************************************************************)
\* self.df['route'].unique() and self.df['warehouse'].unique()
DatasetRoutes == <<"Route A", "Route B", "Route C", "Route D", "Route E">>

DatasetWarehouses == <<"WH1", "WH2", "WH3", "WH4", "WH5">>

\* the keys of month_mapping
month_mapping ==
    {"january", "jan", "february", "feb", "march", "mar", "april", "apr",
     "may", "june", "jun", "july", "jul", "august", "aug",
     "september", "sep", "sept", "october", "oct", "november", "nov",
     "december", "dec"}

\* the argument bound to a keyword parameter whose default is None
Argument(kwargs, key) ==
    IF key \in DictKeys(kwargs) THEN DictGet(kwargs, key) ELSE NoneValue

\* `if value:`
Truthy(v) == (v.t = "str" /\ v.s # "") \/ (v.t = "int" /\ v.n # 0)

\* f"{value}"
Formatted(v) ==
    IF v.t = "str" THEN v.s ELSE IF v.t = "int" THEN ToString(v.n) ELSE "None"

\* the value is one of the dataset's identifiers
Among(v, identifiers) ==
    v.t = "str" /\ \E i \in 1..Len(identifiers) : identifiers[i] = v.s

\* a text pd.to_datetime reads as a date: YYYY-MM-DD
IsoDate(s) ==
    /\ Len(s) = 10
    /\ \A i \in {1, 2, 3, 4, 6, 7, 9, 10} : IsDigit(SubSeq(s, i, i))
    /\ \A i \in {5, 8} : SubSeq(s, i, i) = "-"

\* pd.to_datetime(value) raises
DateRaises(v) == v.t = "str" /\ ~IsoDate(v.s)

\* lines 133-136
NoRouteText(route) ==
    "No data found for " \o Formatted(route) \o ". Available routes: "
        \o Join(DatasetRoutes, ", ")

\* lines 191-194
NoWarehouseText(warehouse) ==
    "No data found for " \o Formatted(warehouse) \o ". Available warehouses: "
        \o Join(DatasetWarehouses, ", ")

\* line 324
InvalidMonthText(month) ==
    "Invalid month: " \o Formatted(month)
        \o ". Use full name or 3-letter abbreviation."

\* the message of the exception pd.to_datetime raises
DateErrorText(v) ==
    "Unknown datetime string format, unable to parse: " \o Formatted(v)

\* lines 131-136
analyze_route_performance(kwargs) ==
    LET route == Argument(kwargs, "route")
    IN  IF Truthy(route) /\ ~Among(route, DatasetRoutes)
        THEN {[kind |-> "text", text |-> NoRouteText(route)]}
        ELSE ToolOutcomes

\* lines 189-194
analyze_warehouse_performance(kwargs) ==
    LET warehouse == Argument(kwargs, "warehouse")
    IN  IF Truthy(warehouse) /\ ~Among(warehouse, DatasetWarehouses)
        THEN {[kind |-> "text", text |-> NoWarehouseText(warehouse)]}
        ELSE ToolOutcomes

\* lines 297-340
analyze_by_time_period(kwargs) ==
    LET month == Argument(kwargs, "month")
        start_date == Argument(kwargs, "start_date")
        end_date == Argument(kwargs, "end_date")
    IN  IF Truthy(month) /\ month.t = "int"
        THEN {[kind |-> "raise",
               text |-> "'int' object has no attribute 'lower'"]}
        ELSE IF Truthy(month) /\ Lower(month.s) \notin month_mapping
        THEN {[kind |-> "text", text |-> InvalidMonthText(month)]}
        ELSE IF Truthy(start_date) /\ DateRaises(start_date)
        THEN {[kind |-> "raise", text |-> DateErrorText(start_date)]}
        ELSE IF Truthy(end_date) /\ DateRaises(end_date)
        THEN {[kind |-> "raise", text |-> DateErrorText(end_date)]}
        ELSE ToolOutcomes

\* tool_function(**kwargs), once the arguments are bound
CallableOutcomes(tool_name, kwargs) ==
    CASE tool_name = "analyze_route_performance" ->
             analyze_route_performance(kwargs)
      [] tool_name = "analyze_warehouse_performance" ->
             analyze_warehouse_performance(kwargs)
      [] tool_name = "analyze_by_time_period" ->
             analyze_by_time_period(kwargs)
      [] OTHER -> ToolOutcomes

(***************************************************************************)
(* State.                                                                  *)
(***************************************************************************)
VARIABLES
    system_prompt,         \* AgentService.system_prompt
    messages,              \* st.session_state.messages
    tool_calls,            \* st.session_state.tool_calls
    pc,                    \* where the turn is: idle, llm1, exec, dispatch, tool, llm2
    user_message,          \* process_message: user_message
    conversation_history,  \* process_message: conversation_history
    outbound,              \* process_message: messages
    initial_response,      \* process_message: initial_response
    calls,                 \* process_message: tool_calls
    idx,                   \* execute_tool_calls: position of the loop
    results,               \* execute_tool_calls: results
    execution_logs,        \* execute_tool_calls: execution_logs
    clock,                 \* the last instant datetime.now() returned
    llm_requests,          \* the message sequences sent to the LLM this turn
    llm_replies,           \* the texts the LLM returned this turn
    invoked,               \* the callables called this turn, in call order
    running,               \* the loop positions whose callable has not returned
    outcome,               \* how the last process_message call ended
    turns,                 \* user turns started
    pieces,                \* the pieces of the text handed to parse_tool_calls alone
    parsed,                \* how that parse_tool_calls call ended
    described              \* the texts get_tools_description has returned

vars ==
    <<system_prompt, messages, tool_calls, pc, user_message, conversation_history,
      outbound, initial_response, calls, idx, results, execution_logs, clock,
      llm_requests, llm_replies, invoked, running, outcome, turns, registry,
      pieces, parsed, described>>

\* the fields of AgentService and ToolExecutor
agent_fields == <<system_prompt, registry>>

\* a call of parse_tool_calls on its own
parser_run == <<pieces, parsed>>

\* what the LLM and the callables of the registry saw of the turn
observed == <<llm_requests, llm_replies, invoked, running>>

session == <<messages, tool_calls>>

locals ==
    <<user_message, conversation_history, outbound, initial_response, calls, idx,
      results, execution_logs>>

\* parse_tool_calls has not been called, has returned calls, has raised
NotParsed == [kind |-> "none", calls |-> <<>>, error |-> ""]
ParseReturned(result) == [kind |-> "returned", calls |-> result, error |-> ""]
ParseRaised(error) == [kind |-> "raised", calls |-> <<>>, error |-> error]

NoOutcome ==
    [kind |-> "none", response |-> "", has_tool_results |-> FALSE,
     tool_results |-> "", execution_logs |-> <<>>, source |-> "", error |-> ""]

\* process_message returned (response, tool_results, execution_logs)
Returned(response, has, tool_results, logs) ==
    [kind |-> "returned", response |-> response, has_tool_results |-> has,
     tool_results |-> tool_results, execution_logs |-> logs, source |-> "",
     error |-> ""]

\* process_message raised an exception whose str() is error; source is the
\* component it left: llm, parser or dispatcher
Raised(source, error) ==
    [kind |-> "raised", response |-> "", has_tool_results |-> FALSE,
     tool_results |-> "", execution_logs |-> <<>>, source |-> source,
     error |-> error]

\* the session and the orchestrator before the first prompt
SessionStart ==
    /\ system_prompt \in SystemPrompts
    /\ messages = <<>>
    /\ tool_calls = <<>>
    /\ pc = "idle"
    /\ user_message = ""
    /\ conversation_history = <<>>
    /\ outbound = <<>>
    /\ initial_response = ""
    /\ calls = <<>>
    /\ idx = 0
    /\ results = <<>>
    /\ execution_logs = <<>>
    /\ clock = 0
    /\ llm_requests = <<>>
    /\ llm_replies = <<>>
    /\ invoked = <<>>
    /\ running = {}
    /\ outcome = NoOutcome
    /\ turns = 0
    /\ pieces = <<>>
    /\ parsed = NotParsed
    /\ described = <<>>

\* ToolExecutor.__init__ line 25: self.tools = self._register_tools()
Init ==
    /\ registry = tools
    /\ SessionStart

(***************************************************************************)
(* app.py main: how a turn ends in the chat handler.                       *)
(***************************************************************************)
\* faulty variant: the tool results are stored in the transcript under the answer
TurnReturns_StoresToolResults(response, has, tool_results, logs) ==
    /\ outcome' = Returned(response, has, tool_results, logs)
    /\ tool_calls' = tool_calls \o logs
    /\ messages' =
           Append(messages,
                  Message("assistant",
                          IF has
                          THEN response \o "\n\n<details><summary>Tool Results</summary>\n\n"
                                   \o tool_results \o "\n\n</details>"
                          ELSE response))
    /\ pc' = "idle"

\* faulty variant: the log of the turn replaces the session log
TurnReturns_ReplacesLog(response, has, tool_results, logs) ==
    /\ outcome' = Returned(response, has, tool_results, logs)
    /\ tool_calls' = logs
    /\ messages' = Append(messages, Message("assistant", response))
    /\ pc' = "idle"

\* faulty variant: the answer overwrites the last entry of the transcript
TurnReturns_RewritesLast(response, has, tool_results, logs) ==
    /\ outcome' = Returned(response, has, tool_results, logs)
    /\ tool_calls' = tool_calls \o logs
    /\ messages' = [messages EXCEPT ![Len(messages)] = Message("assistant", response)]
    /\ pc' = "idle"

\* lines 113-128 and 140: process_message returned
TurnReturns(response, has, tool_results, logs) ==
    /\ outcome' = Returned(response, has, tool_results, logs)
    /\ tool_calls' = tool_calls \o logs
    /\ messages' = Append(messages, Message("assistant", response))
    /\ pc' = "idle"

\* faulty variant: the entries logged before the failure reach the session log
TurnRaises_KeepsLogs(source, error) ==
    /\ outcome' = Raised(source, error)
    /\ tool_calls' = tool_calls \o execution_logs
    /\ messages' = Append(messages, Message("assistant", "Error: " \o error))
    /\ pc' = "idle"

\* faulty variant: the caller takes the user message of the failed turn back
TurnRaises_DropsUserMessage(source, error) ==
    /\ outcome' = Raised(source, error)
    /\ tool_calls' = tool_calls
    /\ messages' = Append(SubSeq(messages, 1, Len(messages) - 1),
                          Message("assistant", "Error: " \o error))
    /\ pc' = "idle"

\* lines 130-133 and 140: process_message raised
TurnRaises(source, error) ==
    /\ outcome' = Raised(source, error)
    /\ tool_calls' = tool_calls
    /\ messages' = Append(messages, Message("assistant", "Error: " \o error))
    /\ pc' = "idle"

\* faulty variant: the whole transcript, the new user message included, is handed over
HistoryFor_WholeTranscript(transcript) == transcript

\* app.py line 115: the history handed to process_message
HistoryFor(transcript) == SubSeq(transcript, 1, Len(transcript) - 1)

\* faulty variant: process_message builds its request in the list it was handed
Submit_BuildsInHistory(prompt) ==
    /\ pc = "idle"
    /\ turns < MaxTurns
    /\ turns' = turns + 1
    /\ messages' = Append(messages, Message("user", prompt))
    /\ user_message' = prompt
    /\ outbound' = InitialMessages(system_prompt, HistoryFor(messages'), prompt)
    /\ conversation_history' = outbound'
    /\ llm_requests' = <<outbound'>>
    /\ llm_replies' = <<>>
    /\ initial_response' = ""
    /\ calls' = <<>>
    /\ idx' = 0
    /\ results' = <<>>
    /\ execution_logs' = <<>>
    /\ invoked' = <<>>
    /\ running' = {}
    /\ outcome' = NoOutcome
    /\ pc' = "llm1"
    /\ UNCHANGED <<agent_fields, parser_run, described, tool_calls, clock>>

\* app.py lines 98-116 and process_message lines 219-224: the user submits a
\* prompt and the first request goes to the LLM
Submit(prompt) ==
    /\ pc = "idle"
    /\ turns < MaxTurns
    /\ turns' = turns + 1
    /\ messages' = Append(messages, Message("user", prompt))
    /\ user_message' = prompt
    /\ conversation_history' = HistoryFor(messages')
    /\ outbound' = InitialMessages(system_prompt, conversation_history', prompt)
    /\ llm_requests' = <<outbound'>>
    /\ llm_replies' = <<>>
    /\ initial_response' = ""
    /\ calls' = <<>>
    /\ idx' = 0
    /\ results' = <<>>
    /\ execution_logs' = <<>>
    /\ invoked' = <<>>
    /\ running' = {}
    /\ outcome' = NoOutcome
    /\ pc' = "llm1"
    /\ UNCHANGED <<agent_fields, parser_run, described, tool_calls, clock>>

\* faulty variant: process_message catches the failure and returns its text
LLMFails_Swallowed(error) ==
    /\ pc \in {"llm1", "llm2"}
    /\ TurnReturns("Error: " \o error, FALSE, "", <<>>)
    /\ UNCHANGED <<agent_fields, parser_run, described, locals, clock, observed, turns>>

\* generate_response raises on the first or on the second call
LLMFails(error) ==
    /\ pc \in {"llm1", "llm2"}
    /\ TurnRaises("llm", error)
    /\ UNCHANGED <<agent_fields, parser_run, described, locals, clock, observed, turns>>

\* lines 224-227: the first response arrives and parse_tool_calls raises
InitialResponseUnparsable(text) ==
    /\ pc = "llm1"
    /\ ParseRaises(text)
    /\ initial_response' = text
    /\ llm_replies' = Append(llm_replies, text)
    /\ TurnRaises("parser", ParseRaiseMessage(text))
    /\ UNCHANGED <<agent_fields, parser_run, described, user_message, conversation_history, outbound, calls,
                   idx, results, execution_logs, clock, llm_requests, invoked,
                   running, turns>>

\* faulty variant: the short-circuit returns an empty text where None is meant
InitialResponseNoTools_EmptyText(text) ==
    /\ pc = "llm1"
    /\ ~ParseRaises(text)
    /\ parse_tool_calls(text) = <<>>
    /\ initial_response' = text
    /\ llm_replies' = Append(llm_replies, text)
    /\ calls' = <<>>
    /\ TurnReturns(text, TRUE, "", <<>>)
    /\ UNCHANGED <<agent_fields, parser_run, described, user_message, conversation_history, outbound, idx,
                   results, execution_logs, clock, llm_requests, invoked, running, turns>>

\* lines 224-231: the first response arrives and holds no tool call
InitialResponseNoTools(text) ==
    /\ pc = "llm1"
    /\ ~ParseRaises(text)
    /\ parse_tool_calls(text) = <<>>
    /\ initial_response' = text
    /\ llm_replies' = Append(llm_replies, text)
    /\ calls' = <<>>
    /\ TurnReturns(text, FALSE, "", <<>>)
    /\ UNCHANGED <<agent_fields, parser_run, described, user_message, conversation_history, outbound, idx,
                   results, execution_logs, clock, llm_requests, invoked, running, turns>>

\* lines 224-234 and 167-168: the first response arrives with tool calls and
\* execute_tool_calls starts
InitialResponseTools(text) ==
    /\ pc = "llm1"
    /\ ~ParseRaises(text)
    /\ parse_tool_calls(text) # <<>>
    /\ initial_response' = text
    /\ llm_replies' = Append(llm_replies, text)
    /\ calls' = parse_tool_calls(text)
    /\ results' = <<>>
    /\ execution_logs' = <<>>
    /\ idx' = 1
    /\ pc' = "exec"
    /\ UNCHANGED <<agent_fields, parser_run, described, session, user_message, conversation_history, outbound,
                   clock, llm_requests, invoked, running, outcome, turns>>

\* faulty variant: the loop is left after the first result
RecordResult_AfterFirst(result) ==
    /\ results' = Append(results, ResultSection(calls[idx].tool_name, result))
    /\ idx' = idx + 1
    /\ outbound' = FinalMessages(outbound, initial_response, CombinedResults(results'))
    /\ llm_requests' = Append(llm_requests, outbound')
    /\ pc' = "llm2"

\* lines 183-185 and 237-248: one result is recorded; after the last one the
\* results are combined and the second request goes to the LLM
RecordResult(result) ==
    /\ results' = Append(results, ResultSection(calls[idx].tool_name, result))
    /\ idx' = idx + 1
    /\ IF idx = Len(calls)
       THEN /\ outbound' = FinalMessages(outbound, initial_response,
                                         CombinedResults(results'))
            /\ llm_requests' = Append(llm_requests, outbound')
            /\ pc' = "llm2"
       ELSE /\ pc' = "exec"
            /\ UNCHANGED <<outbound, llm_requests>>

\* lines 170-179: the next tool call is logged with the current time
LogNext(now) ==
    /\ pc = "exec"
    /\ clock' = now
    /\ execution_logs' =
           Append(execution_logs,
                  LogEntry(calls[idx].tool_name, calls[idx].parameters, now))
    /\ pc' = "dispatch"
    /\ UNCHANGED <<agent_fields, parser_run, described, session, user_message, conversation_history, outbound,
                   initial_response, calls, idx, results, observed, outcome, turns>>

\* line 182: the arguments of the call collide with execute_tool's own
\* parameters, the TypeError leaves execute_tool_calls and process_message
DispatchRaises ==
    /\ pc = "dispatch"
    /\ ExecuteToolRejects(calls[idx].parameters)
    /\ TurnRaises("dispatcher", ExecuteToolRejectMessage(calls[idx].parameters))
    /\ UNCHANGED <<agent_fields, parser_run, described, locals, clock, observed, turns>>

\* faulty variant: a tool that is not registered is added to the registry
DispatchUnknown_RegistersTool ==
    /\ pc = "dispatch"
    /\ ~ExecuteToolRejects(calls[idx].parameters)
    /\ ~Registered(calls[idx].tool_name)
    /\ registry' = Append(registry, [name |-> calls[idx].tool_name,
                                      description |-> "",
                                      parameters |-> <<>>])
    /\ RecordResult(ToolNotFoundText(calls[idx].tool_name))
    /\ UNCHANGED <<system_prompt, parser_run, described, session, user_message, conversation_history,
                   initial_response, calls, execution_logs, clock, llm_replies,
                   invoked, running, outcome, turns>>

\* lines 182-183 and 143-144: the tool is not registered
DispatchUnknown ==
    /\ pc = "dispatch"
    /\ ~ExecuteToolRejects(calls[idx].parameters)
    /\ ~Registered(calls[idx].tool_name)
    /\ RecordResult(ToolNotFoundText(calls[idx].tool_name))
    /\ UNCHANGED <<agent_fields, parser_run, described, session, user_message, conversation_history,
                   initial_response, calls, execution_logs, clock, llm_replies,
                   invoked, running, outcome, turns>>

\* lines 182 and 146-148: the registered callable is called
DispatchCall ==
    /\ pc = "dispatch"
    /\ ~ExecuteToolRejects(calls[idx].parameters)
    /\ Registered(calls[idx].tool_name)
    /\ invoked' = Append(invoked, [idx |-> idx,
                                    tool_name |-> calls[idx].tool_name,
                                    kwargs |-> calls[idx].parameters,
                                    out |-> Pending])
    /\ running' = running \cup {idx}
    /\ pc' = "tool"
    /\ UNCHANGED <<agent_fields, parser_run, described, session, user_message, conversation_history, outbound,
                   initial_response, calls, idx, results, execution_logs, clock,
                   llm_requests, llm_replies, outcome, turns>>

\* lines 148-155 and 183: the callable returns or raises
ToolFinishes(out) ==
    /\ pc = "tool"
    /\ IF CallableRejects(calls[idx].tool_name, calls[idx].parameters)
       THEN out = RejectOutcome(calls[idx].tool_name)
       ELSE out \in CallableOutcomes(calls[idx].tool_name, calls[idx].parameters)
    /\ running' = running \ {idx}
    /\ invoked' = [invoked EXCEPT ![Len(invoked)].out = out]
    /\ RecordResult(ExecuteToolResult(calls[idx].tool_name, out))
    /\ UNCHANGED <<agent_fields, parser_run, described, session, user_message, conversation_history,
                   initial_response, calls, execution_logs, clock, llm_replies,
                   outcome, turns>>

\* faulty variant: the second response is parsed and its tool calls start another round
FinalResponse_Reparses(text) ==
    /\ pc = "llm2"
    /\ llm_replies' = Append(llm_replies, text)
    /\ IF ~ParseRaises(text) /\ parse_tool_calls(text) # <<>>
       THEN /\ calls' = parse_tool_calls(text)
            /\ results' = <<>>
            /\ execution_logs' = <<>>
            /\ idx' = 1
            /\ pc' = "exec"
            /\ UNCHANGED <<session, outcome, user_message, conversation_history,
                           outbound, initial_response>>
       ELSE /\ TurnReturns(text, TRUE, CombinedResults(results), execution_logs)
            /\ UNCHANGED locals
    /\ UNCHANGED <<agent_fields, parser_run, described, clock, llm_requests, invoked, running, turns>>

\* lines 248-250: the second response arrives and is returned as it is
FinalResponse(text) ==
    /\ pc = "llm2"
    /\ llm_replies' = Append(llm_replies, text)
    /\ TurnReturns(text, TRUE, CombinedResults(results), execution_logs)
    /\ UNCHANGED <<agent_fields, parser_run, described, locals, clock, llm_requests, invoked, running, turns>>

\* ui_manager.py lines 137-140: the Clear Conversation button
ClearConversation ==
    /\ pc = "idle"
    /\ messages # <<>>
    /\ messages' = <<>>
    /\ tool_calls' = <<>>
    /\ UNCHANGED <<agent_fields, parser_run, described, pc, locals, clock, observed, outcome, turns>>

\* what the callable being run can do
PossibleOutcomes ==
    IF pc = "tool"
    THEN CallableOutcomes(calls[idx].tool_name, calls[idx].parameters)
             \cup {RejectOutcome(calls[idx].tool_name)}
    ELSE {}

Instants == clock..MaxClock

Next ==
    \/ \E prompt \in Prompts : Submit(prompt)
    \/ \E error \in LLMErrors : LLMFails(error)
    \/ \E text \in InitialTexts : InitialResponseUnparsable(text)
    \/ \E text \in InitialTexts : InitialResponseNoTools(text)
    \/ \E text \in InitialTexts : InitialResponseTools(text)
    \/ \E now \in Instants : LogNext(now)
    \/ DispatchRaises
    \/ DispatchUnknown
    \/ DispatchCall
    \/ \E out \in PossibleOutcomes : ToolFinishes(out)
    \/ \E text \in FinalTexts : FinalResponse(text)
    \/ ClearConversation

Spec == Init /\ [][Next]_vars

(***************************************************************************)
(* parse_tool_calls on its own: a text is put together from pieces, calls  *)
(* written the way the system prompt asks for them and the prose around    *)
(* them, and handed to the parser.                                         *)
(***************************************************************************)
\* the most pieces a text is made of
MaxPieces == 2

Invocation(tool_name, parameters) ==
    [tool_name |-> tool_name, parameters |-> parameters]

\* well-formed TOOL_CALL: name(...) occurrences and the invocation each one
\* stands for
WellFormedCalls ==
    {[text |-> "TOOL_CALL: get_dataset_summary()",
      calls |-> <<Invocation("get_dataset_summary", <<>>)>>],
     [text |-> "TOOL_CALL:analyze_route_performance(route=\"Route A\")",
      calls |-> <<Invocation("analyze_route_performance",
                             <<<<"route", StrValue("Route A")>>>>)>>],
     [text |-> "TOOL_CALL: analyze_by_time_period(year=2024, month=\"Oct\")",
      calls |-> <<Invocation("analyze_by_time_period",
                             <<<<"year", IntValue(2024)>>,
                               <<"month", StrValue("Oct")>>>>)>>],
     [text |-> "TOOL_CALL:\nanalyze_warehouse_performance(\n  warehouse=None\n)",
      calls |-> <<Invocation("analyze_warehouse_performance",
                             <<<<"warehouse", NoneValue>>>>)>>],
     [text |-> "TOOL_CALL: analyze_route_performance( )",
      calls |-> <<Invocation("analyze_route_performance", <<>>)>>],
     [text |-> "TOOL_CALL: analyze_by_time_period(month='NONE', year=\"007\", start_date= 2024-01-01 )",
      calls |-> <<Invocation("analyze_by_time_period",
                             <<<<"month", NoneValue>>,
                               <<"year", IntValue(7)>>,
                               <<"start_date", StrValue("2024-01-01")>>>>)>>],
     [text |-> "TOOL_CALL: search_shipments(query='x²')",
      calls |-> <<Invocation("search_shipments",
                             <<<<"query", StrValue("x²")>>>>)>>],
     [text |-> "TOOL_CALL: analyze_by_time_period(year=²)",
      calls |-> <<Invocation("analyze_by_time_period",
                             <<<<"year", StrValue("²")>>>>)>>],
     [text |-> "TOOL_CALL: search_shipments(query=\"late (traffic) on Route A\")",
      calls |-> <<Invocation("search_shipments",
                             <<<<"query", StrValue("late (traffic) on Route A")>>>>)>>]}

\* prose, and calls that are not well-formed: lower-case marker, a name that
\* is no identifier, no closing parenthesis
Prose ==
    {[text |-> "Let me check. ", calls |-> <<>>],
     [text |-> "\n(see the table)\n", calls |-> <<>>],
     [text |-> "tool_call: get_dataset_summary() ", calls |-> <<>>],
     [text |-> "TOOL_CALL: route-report(id=7) ", calls |-> <<>>],
     [text |-> "TOOL_CALL: get_statistical_summary(detail=\"full\" ", calls |-> <<>>]}

Pieces == WellFormedCalls \cup Prose

\* the text handed to parse_tool_calls
ParserText == Join([i \in 1..Len(pieces) |-> pieces[i].text], "")

AddPiece(piece) ==
    /\ parsed.kind = "none"
    /\ Len(pieces) < MaxPieces
    /\ pieces' = Append(pieces, piece)
    /\ UNCHANGED <<agent_fields, session, locals, pc, clock, observed, outcome, turns,
                   parsed, described>>

\* lines 104-130: parse_tool_calls returns
ParserReturns ==
    /\ parsed.kind = "none"
    /\ ~ParseRaises(ParserText)
    /\ parsed' = ParseReturned(parse_tool_calls(ParserText))
    /\ UNCHANGED <<agent_fields, session, locals, pc, clock, observed, outcome, turns,
                   pieces, described>>

\* line 121: int() raises in parse_tool_calls
ParserRaises ==
    /\ parsed.kind = "none"
    /\ ParseRaises(ParserText)
    /\ parsed' = ParseRaised(ParseRaiseMessage(ParserText))
    /\ UNCHANGED <<agent_fields, session, locals, pc, clock, observed, outcome, turns,
                   pieces, described>>

ParserNext ==
    \/ \E piece \in Pieces : AddPiece(piece)
    \/ ParserReturns
    \/ ParserRaises

ParserSpec == Init /\ [][ParserNext]_vars

(***************************************************************************)
(* get_tools_description on its own: a ToolExecutor is built over a        *)
(* registry and asked for the description of its tools, more than once.    *)
(***************************************************************************)
\* the most tools a registry other than the program's own holds
MaxTools == 2

\* the most calls of get_tools_description on one registry
MaxDescribes == 2

\* the tools of _register_tools picked and ordered by positions
Picked(positions) == [i \in 1..Len(positions) |-> tools[positions[i]]]

\* registries: the program's own, and every choice of up to MaxTools of its
\* tools in every order
Registries ==
    {tools} \cup
    {Picked(positions) :
        positions \in {p \in UNION {[1..n -> 1..Len(tools)] : n \in 0..MaxTools} :
                          \A i, j \in DOMAIN p : p[i] = p[j] => i = j}}

DescribeInit ==
    /\ registry \in Registries
    /\ SessionStart

\* lines 83-92: get_tools_description returns
Describe ==
    /\ Len(described) < MaxDescribes
    /\ described' = Append(described, get_tools_description)
    /\ UNCHANGED <<agent_fields, session, locals, pc, clock, observed, outcome, turns,
                   parser_run>>

DescribeNext == Describe

DescribeSpec == DescribeInit /\ [][DescribeNext]_vars


(***************************************************************************)
(* Properties of a turn.                                                   *)
(***************************************************************************)
\* the first response of the running or last turn has arrived and
\* parse_tool_calls has returned
FirstReplyParsed ==
    /\ Len(llm_replies) >= 1
    /\ ~(outcome.kind = "raised" /\ outcome.source = "parser")

\* process_message line 227: the tool calls parsed from the first response
FirstReplyCalls == calls

\* the tool loop has just been entered
LoopEntered == pc = "exec" /\ idx = 1

\* C1: in a turn whose first LLM response holds no tool call, process_message
\* returns (initial_response, None, []) after exactly one LLM call and no
\* callable of the registry is called.
C1_NoToolTurnReturnsFirstResponse ==
    /\ (FirstReplyParsed /\ FirstReplyCalls = <<>>) =>
          /\ pc = "idle"
          /\ outcome = Returned(llm_replies[1], FALSE, "", <<>>)
          /\ Len(llm_requests) = 1
          /\ Len(llm_replies) = 1
          /\ invoked = <<>>
          /\ execution_logs = <<>>
    /\ LoopEntered => parse_tool_calls(llm_replies[1]) # <<>>

C1_Witness ==
    /\ pc = "idle"
    /\ llm_replies = <<"Hi! I'm Hermes, your logistics assistant.">>
    /\ outcome.kind = "returned"
    /\ ~outcome.has_tool_results
    /\ Len(messages) = 4

C3_SecondResponseVerbatim ==
    /\ Len(llm_requests) <= 2
    /\ Len(llm_replies) <= 2
    /\ Len(llm_replies) = 2 =>
          /\ pc = "idle"
          /\ outcome.kind = "returned"
          /\ outcome.response = llm_replies[2]
          /\ (messages # <<>> =>
                 messages[Len(messages)] = Message("assistant", llm_replies[2]))

\* C3 (step part): once the second LLM call of a turn has started, no tool is
\* logged, dispatched or called and nothing is parsed again in that turn.
C3_NoToolAfterSecondCall ==
    (Len(llm_requests) = 2 /\ turns' = turns) =>
        /\ invoked' = invoked
        /\ execution_logs' = execution_logs
        /\ results' = results
        /\ calls' = calls
        /\ llm_requests' = llm_requests
        /\ pc' = "idle"

\* C3: a turn has exactly one tool-execution round.
C3_SingleToolRound ==
    []C3_SecondResponseVerbatim /\ [][C3_NoToolAfterSecondCall]_vars

C3_Witness ==
    /\ pc = "idle"
    /\ Len(llm_replies) = 2
    /\ llm_replies[2] = "TOOL_CALL: get_dataset_summary()"
    /\ outcome.response = "TOOL_CALL: get_dataset_summary()"
    /\ Len(invoked) = 1

\* C4: every message sequence sent to the LLM starts with the system prompt,
\* and the first one of a turn is the system message, the transcript as it
\* was before the turn, and the new user message once, as the last element.
C4_FirstSequenceShape ==
    /\ \A i \in 1..Len(llm_requests) :
          llm_requests[i][1] = Message("system", system_prompt)
    /\ pc # "idle" =>
          /\ Len(llm_requests) >= 1
          /\ Len(llm_requests[1]) = Len(messages) + 1
          /\ SubSeq(llm_requests[1], 2, Len(llm_requests[1])) = messages
          /\ llm_requests[1][Len(llm_requests[1])] = Message("user", user_message)
    /\ Len(llm_requests) >= 1 =>
          /\ Len(llm_requests[1]) = Len(conversation_history) + 2
          /\ \A j \in 1..Len(conversation_history) :
                llm_requests[1][j + 1] = conversation_history[j]

C4_Witness ==
    /\ pc = "llm2"
    /\ Len(messages) = 3
    /\ Len(llm_requests[1]) = 4
    /\ messages[1].content = user_message

\* C5: the sequence of the second LLM call is the first sequence unchanged,
\* then one assistant message holding the first response, then one user
\* message holding the combined tool text inside the instruction template.
C5_SecondSequenceShape ==
    Len(llm_requests) = 2 =>
        /\ Len(llm_requests[2]) = Len(llm_requests[1]) + 2
        /\ SubSeq(llm_requests[2], 1, Len(llm_requests[1])) = llm_requests[1]
        /\ llm_requests[2][Len(llm_requests[1]) + 1] =
               Message("assistant", llm_replies[1])
        /\ llm_requests[2][Len(llm_requests[1]) + 2] =
               Message("user",
                       "Here are the tool results:\n\n"
                           \o Join(results, "\n\n---\n\n")
                           \o "\n\nBased on these tool results, answer the user's original question directly and concisely. Focus ONLY on what the user asked for. Extract the specific information they requested (e.g., if they asked for 'average delay', provide that number clearly). Do not repeat all the data - just answer their question.")
        /\ (outcome.kind = "returned" =>
               outcome.tool_results = Join(results, "\n\n---\n\n"))

C5_Witness ==
    /\ pc = "llm2"
    /\ Len(llm_requests) = 2
    /\ Len(llm_requests[2]) = 6
    /\ Len(results) = 3

(***************************************************************************)
(* Properties of the dispatcher.                                           *)
(***************************************************************************)
\* execute_tool_calls has returned in the running or last turn
DispatchReturned == Len(llm_requests) = 2

\* the exception that ended the turn left the dispatcher at calls[idx]
DispatcherRaised == outcome.kind = "raised" /\ outcome.source = "dispatcher"

\* C6: dispatching an invocation whose callable raises never raises out of
\* the dispatcher, for every tool name and every arguments mapping the parser
\* can produce: the failure becomes a result text holding the tool name.
C6_RaisingCallableBecomesText ==
    /\ \A k \in 1..Len(invoked) :
          (invoked[k].out.kind = "raise") =>
              /\ invoked[k].idx <= Len(results)
              /\ results[invoked[k].idx] =
                     ResultSection(invoked[k].tool_name,
                                   "Error executing " \o invoked[k].tool_name
                                       \o ": " \o invoked[k].out.text)
    /\ ~(/\ DispatcherRaised
         /\ Registered(calls[idx].tool_name)
         /\ CallableRejects(calls[idx].tool_name, calls[idx].parameters))

\* C7: dispatching an invocation for an unregistered name never raises out of
\* the dispatcher and calls no callable; the result text holds the unknown
\* name and every registered name.
C7_UnknownToolBecomesText ==
    /\ \A k \in 1..Len(invoked) : Registered(invoked[k].tool_name)
    /\ \A i \in 1..Len(results) :
          ~Registered(calls[i].tool_name) =>
              /\ Contains(results[i], "'" \o calls[i].tool_name \o "'")
              /\ \A j \in 1..Len(tools) : Contains(results[i], tools[j].name)
    /\ ~(DispatcherRaised /\ ~Registered(calls[idx].tool_name))

\* execute_tool_calls has been left in the running or last turn, by a return
\* or by an exception
LoopLeft == calls # <<>> /\ pc \in {"llm2", "idle"}

\* C8: execute_tool_calls on n invocations produces exactly n log entries,
\* the i-th one holding the tool name and the arguments of the i-th
\* invocation, with timestamps that never decrease.
C8_LogFollowsInvocations ==
    /\ Len(execution_logs) <= Len(calls)
    /\ \A i \in 1..Len(execution_logs) :
          /\ execution_logs[i].tool = calls[i].tool_name
          /\ execution_logs[i].params = calls[i].parameters
          /\ i > 1 => execution_logs[i - 1].timestamp <= execution_logs[i].timestamp
    /\ LoopLeft =>
          /\ DispatchReturned
          /\ Len(execution_logs) = Len(calls)
    /\ (outcome.kind = "returned" /\ outcome.has_tool_results) =>
          outcome.execution_logs = execution_logs

\* C9 (step part): at the step that dispatches an invocation, its log entry
\* is already there.
C9_LoggedBeforeDispatch ==
    (pc = "dispatch" /\ pc' # "dispatch") =>
        /\ Len(execution_logs) = idx
        /\ execution_logs[idx].tool = calls[idx].tool_name
        /\ execution_logs[idx].params = calls[idx].parameters

\* C9 (order of the steps): the log entry of each invocation is appended
\* before the invocation is dispatched.
C9_LogBeforeExecution == [][C9_LoggedBeforeDispatch]_vars

\* C9: the callable of an invocation is only ever running or finished with
\* the log entry of that invocation in place, and once execute_tool_calls is
\* left, the log it returns holds the entry of every invocation whose
\* callable raised.
C9_FailedCallStaysLogged ==
    /\ \A k \in 1..Len(invoked) :
          /\ invoked[k].idx <= Len(execution_logs)
          /\ execution_logs[invoked[k].idx].tool = invoked[k].tool_name
          /\ execution_logs[invoked[k].idx].params = invoked[k].kwargs
    /\ \A k \in 1..Len(invoked) :
          (LoopLeft /\ invoked[k].out.kind = "raise") =>
              /\ DispatchReturned
              /\ (outcome.kind = "returned" =>
                     /\ invoked[k].idx <= Len(outcome.execution_logs)
                     /\ outcome.execution_logs[invoked[k].idx].tool =
                            invoked[k].tool_name)

\* the loop positions execute_tool_calls has dispatched to a callable
DispatchedPositions == {invoked[k].idx : k \in 1..Len(invoked)}

\* C10: the invocations are executed one at a time in the order of the
\* parser, none skipped, none merged, no two at once; the combined text holds
\* one "Tool: <name>" section per invocation in that order, joined by the
\* "---" separator.
C10_SequentialInParserOrder ==
    /\ Cardinality(running) <= 1
    /\ pc # "tool" => running = {}
    /\ \A k \in 1..Len(invoked) :
          /\ invoked[k].tool_name = calls[invoked[k].idx].tool_name
          /\ invoked[k].kwargs = calls[invoked[k].idx].parameters
          /\ k > 1 => invoked[k - 1].idx < invoked[k].idx
          /\ k < Len(invoked) => invoked[k].out.kind # "pending"
    /\ DispatchedPositions =
           {i \in (1..Len(results)) \cup running : Registered(calls[i].tool_name)}
    /\ Len(results) <= Len(calls)
    /\ \A i \in 1..Len(results) :
          StartsWithAt(results[i], 1, "**Tool: " \o calls[i].tool_name \o "**\n\n")
    /\ LoopLeft => Len(results) = Len(calls)
    /\ (outcome.kind = "returned" /\ outcome.has_tool_results) =>
          outcome.tool_results = Join(results, "\n\n---\n\n")


(***************************************************************************)
(* Properties of the failing paths and of the session.                     *)
(***************************************************************************)
\* a call of generate_response of the last turn was not answered: it raised
LLMCallFailed == pc = "idle" /\ Len(llm_replies) < Len(llm_requests)

\* C11: a failure of generate_response, on the first or on the second call
\* of a turn, is not caught by process_message: process_message returns only
\* when every call was answered, and a call that raised ends the turn with
\* that exception at the caller and no result.
C11_LLMFailurePropagates ==
    /\ outcome.kind = "returned" => Len(llm_replies) = Len(llm_requests)
    /\ LLMCallFailed =>
          /\ outcome.kind = "raised"
          /\ outcome.source = "llm"
          /\ outcome.error \in LLMErrors
          /\ outcome.response = ""
          /\ ~outcome.has_tool_results
          /\ outcome.execution_logs = <<>>
          /\ (messages # <<>> =>
                 messages[Len(messages)] =
                     Message("assistant", "Error: " \o outcome.error))

C11_Witness ==
    /\ LLMCallFailed
    /\ Len(llm_requests) = 2
    /\ Len(invoked) = 1
    /\ outcome.kind = "raised"


\* C12: when process_message raises, whatever raised in it, the transcript is
\* the transcript as it was before the turn, then the user message of the
\* turn, then one assistant message holding the error text; the user message
\* is in the transcript from the start of the turn.
C12_FailedTurnKeepsTranscript ==
    /\ pc # "idle" =>
          messages = Append(conversation_history, Message("user", user_message))
    /\ (pc = "idle" /\ outcome.kind = "raised" /\ messages # <<>>) =>
          messages =
              conversation_history
                  \o <<Message("user", user_message),
                       Message("assistant", "Error: " \o outcome.error)>>

C12_Witness ==
    /\ pc = "idle"
    /\ outcome.kind = "raised"
    /\ outcome.source = "parser"
    /\ Len(messages) = 4
    /\ messages[3] = Message("user", user_message)
    /\ messages[4].role = "assistant"


\* s is an initial part of t
IsPrefix(s, t) == Len(s) <= Len(t) /\ SubSeq(t, 1, Len(s)) = s

\* the transcript holds whole turns in turn order: user, assistant, user, ...
TurnOrder ==
    /\ \A i \in 1..Len(messages) :
          messages[i].role = IF i % 2 = 1 THEN "user" ELSE "assistant"
    /\ pc = "idle" => Len(messages) % 2 = 0
    /\ pc # "idle" => Len(messages) % 2 = 1

\* C13 as stated: over any sequence of session operations the transcript
\* only grows by appends at its end; no earlier entry is ever changed or
\* removed.
C13_TranscriptOnlyAppends == [][IsPrefix(messages, messages')]_vars

\* a step appends at most one message at the end, or it is Clear Conversation,
\* which empties the transcript and the session log together
C13_AppendOrClear ==
    \/ /\ IsPrefix(messages, messages')
       /\ Len(messages') <= Len(messages) + 1
    \/ /\ pc = "idle"
       /\ messages' = <<>>
       /\ tool_calls' = <<>>

\* C13 (amended): the transcript grows by appends at its end in turn order
\* and no earlier entry is changed, except that Clear Conversation empties it
\* as a whole.
C13_TranscriptAppendsUntilCleared == []TurnOrder /\ [][C13_AppendOrClear]_vars

C13_Witness ==
    /\ pc = "idle"
    /\ turns = 2
    /\ Len(messages) = 2
    /\ messages[1] = Message("user", user_message)


\* a step of a chat turn (parser, dispatcher, orchestrator and the chat
\* handler around them); the only other step is the Clear Conversation
\* button of the sidebar, taken between turns
CoreStep == pc # "idle" \/ pc' # "idle"

\* the step at which process_message returns
TurnCompletes == outcome.kind # "returned" /\ outcome'.kind = "returned"

\* C14 (step): a step of a turn never removes or rewrites an entry of the
\* session log; the step at which process_message returns extends it by the
\* log of execute_tool_calls of that turn, in order; no other step of a turn
\* changes it.
C14_LogStep ==
    CoreStep =>
        /\ IsPrefix(tool_calls, tool_calls')
        /\ TurnCompletes =>
              /\ tool_calls' = tool_calls \o execution_logs
              /\ outcome'.execution_logs = execution_logs
        /\ ~TurnCompletes => tool_calls' = tool_calls

\* C14: the session execution log grows monotonically: every completed turn
\* extends it by that turn's log entries in order, and the core never
\* removes or rewrites an entry.
C14_SessionLogGrows == [][C14_LogStep]_vars

C14_Witness ==
    /\ pc = "idle"
    /\ outcome.kind = "returned"
    /\ Len(outcome.execution_logs) = 1
    /\ Len(tool_calls) = 4
    /\ tool_calls[4] = outcome.execution_logs[1]


(***************************************************************************)
(* Properties of parse_tool_calls.                                         *)
(***************************************************************************)
\* the invocations the well-formed occurrences of the text stand for, from
\* left to right
RECURSIVE CallsOf(_)
CallsOf(ps) == IF ps = <<>> THEN <<>> ELSE ps[1].calls \o CallsOf(Tail(ps))

\* parse_tool_calls has been called on the text and has returned or raised
ParserDone == parsed.kind # "none"

\* C15: for every text made of well-formed TOOL_CALL: name(...) occurrences
\* and arbitrary prose around and between them, parse_tool_calls returns
\* exactly one invocation per well-formed occurrence, in left-to-right order,
\* with the arguments of each call in left-to-right order.
C15_EveryWellFormedCallExtracted ==
    ParserDone =>
        /\ parsed.kind = "returned"
        /\ parsed.calls = CallsOf(pieces)


\* C16: parse_tool_calls never raises, whatever the text: calls that are not
\* well-formed (no closing parenthesis, a name that is no identifier) are
\* skipped and yield no invocation, and a text without a call yields the
\* empty sequence.
C16_ParserNeverRaises ==
    ParserDone =>
        /\ parsed.kind = "returned"
        /\ CallsOf(pieces) = <<>> => parsed.calls = <<>>

\* the coercion as the claim words it: None for none in any case, an int for
\* a value made of decimal digits only, the stripped text otherwise
DecimalDigitsOnly(v) ==
    v # "" /\ \A i \in 1..Len(v) : CharAt(v, i) \in DecimalDigits

StatedCoerce(raw) ==
    LET v == StripValue(raw)
    IN  IF Lower(v) = "none" THEN NoneValue
        ELSE IF DecimalDigitsOnly(v) THEN IntValue(IntOf(v))
        ELSE StrValue(v)

RECURSIVE StatedParamsOf(_, _)
StatedParamsOf(pm, d) ==
    IF pm = <<>> THEN d
    ELSE StatedParamsOf(Tail(pm),
                        DictSet(d, pm[1].param_name, StatedCoerce(pm[1].param_value)))

StatedParams(params_str) ==
    IF Strip(params_str, SpaceChars) = "" THEN <<>>
    ELSE StatedParamsOf(ParamMatches(params_str, 1), <<>>)

\* C17: for each matched call, an empty or whitespace-only argument body
\* gives empty arguments; otherwise each raw value is stripped of surrounding
\* whitespace and quotes and becomes None if it equals none in any case, an
\* integer if it is made of decimal digits only, and the stripped string
\* unchanged in every other case.
C17_ArgumentsCoerced ==
    ParserDone =>
        LET ms == ToolMatches(ParserText, 1)
        IN  /\ parsed.kind = "returned"
            /\ Len(parsed.calls) = Len(ms)
            /\ \A i \in 1..Len(ms) :
                  /\ parsed.calls[i].tool_name = ms[i].tool_name
                  /\ parsed.calls[i].parameters = StatedParams(ms[i].params_str)


\* the inputs the data-analysis interface calls malformed: a route or a
\* warehouse the dataset does not have, a date that cannot be read
MalformedInput(tool_name, kwargs) ==
    \/ /\ tool_name = "analyze_route_performance"
       /\ Truthy(Argument(kwargs, "route"))
       /\ ~Among(Argument(kwargs, "route"), DatasetRoutes)
    \/ /\ tool_name = "analyze_warehouse_performance"
       /\ Truthy(Argument(kwargs, "warehouse"))
       /\ ~Among(Argument(kwargs, "warehouse"), DatasetWarehouses)
    \/ /\ tool_name = "analyze_by_time_period"
       /\ \E key \in {"start_date", "end_date"} :
              /\ Truthy(Argument(kwargs, key))
              /\ DateRaises(Argument(kwargs, key))

\* C18: a data-analysis callable given malformed input (an unknown route or
\* warehouse identifier, an invalid date format) raises, and the result
\* recorded for the call is the dispatcher's error text, never a text the
\* callable returned.
C18_MalformedInputRaises ==
    \A k \in 1..Len(invoked) :
        LET c == invoked[k]
        IN  (/\ c.out # Pending
             /\ ~CallableRejects(c.tool_name, c.kwargs)
             /\ MalformedInput(c.tool_name, c.kwargs))
            => /\ c.out.kind = "raise"
               /\ results[c.idx] =
                      ResultSection(c.tool_name,
                                    ToolErrorText(c.tool_name, c.out.text))

\* the part of C18 the callables keep: an unreadable date raises and
\* becomes the dispatcher's error text
C18_UnreadableDateRaises ==
    \A k \in 1..Len(invoked) :
        LET c == invoked[k]
        IN  (/\ c.out # Pending
             /\ c.tool_name = "analyze_by_time_period"
             /\ ~CallableRejects(c.tool_name, c.kwargs)
             /\ MalformedInput(c.tool_name, c.kwargs))
            => /\ c.out.kind = "raise"
               /\ results[c.idx] =
                      ResultSection(c.tool_name,
                                    ToolErrorText(c.tool_name, c.out.text))


\* C19 (step): while process_message runs, and at the step it returns or
\* raises, the history it was handed is the list the caller passed, the
\* transcript without the message just added, with the same length and the
\* same entries; no step changes the system prompt or the registry.
C19_HistoryStep ==
    /\ system_prompt' = system_prompt
    /\ registry' = registry
    /\ pc # "idle" =>
           /\ conversation_history = HistoryFor(messages)
           /\ conversation_history' = conversation_history

\* C19: process_message does not retain or modify the caller's history: on
\* the no-tool path, the tool path and the failing paths alike the history
\* passed in has the same length and entries after the call as before, and
\* the orchestrator's own fields (system prompt, registry) are unchanged.
C19_HistoryAndFieldsUntouched == [][C19_HistoryStep]_vars

\* a second turn that ran a tool has returned: the history it was handed
\* still is the two messages of the first turn
C19_Witness ==
    /\ pc = "idle"
    /\ outcome.kind = "returned"
    /\ outcome.has_tool_results
    /\ Len(messages) = 4
    /\ Len(conversation_history) = 2
    /\ conversation_history = SubSeq(messages, 1, 2)
    /\ registry = tools


\* C20: the tool registry is built once and is immutable thereafter: it is
\* what _register_tools returned at construction, the same tools in the same
\* order, whatever parse, execute_one, execute_all, describe and
\* process_message calls have been made.
C20_RegistryImmutable ==
    /\ registry = tools
    /\ \A i, j \in 1..Len(registry) :
           registry[i].name = registry[j].name => i = j

\* a turn has asked for a tool that is not registered and for a registered
\* one, both went through the dispatcher, and the registry still has its
\* eight tools and not the one asked for
C20_Witness ==
    /\ pc = "idle"
    /\ outcome.kind = "returned"
    /\ Len(calls) = 3
    /\ calls[2].tool_name = "route_report"
    /\ Len(invoked) = 2
    /\ Len(registry) = 8
    /\ ~Registered("route_report")


(***************************************************************************)
(* Properties of get_tools_description.                                    *)
(***************************************************************************)
\* the places of a text where sub begins
Occurrences(text, sub) == {i \in 1..Len(text) : StartsWithAt(text, i, sub)}

\* '- name: description', and under it the indented Parameters line of a
\* tool that has parameters
StatedBlock(tool) ==
    "- " \o tool.name \o ": " \o tool.description
        \o (IF tool.parameters = <<>> THEN ""
            ELSE "\n  Parameters: "
                     \o Join([i \in 1..Len(tool.parameters) |->
                                  tool.parameters[i][1] \o ": "
                                      \o tool.parameters[i][2]], ", "))

\* from position from on, the text holds the blocks of the tools of reg one
\* after the other, and no Parameters line under a tool without parameters
RECURSIVE RenderedInOrder(_, _, _)
RenderedInOrder(text, reg, from) ==
    IF reg = <<>> THEN TRUE
    ELSE LET block == StatedBlock(Head(reg))
         IN  \E p \in from..Len(text) :
                 /\ StartsWithAt(text, p, block)
                 /\ Head(reg).parameters = <<>> =>
                        ~StartsWithAt(text, p + Len(block), "\n  Parameters:")
                 /\ RenderedInOrder(text, Tail(reg), p + Len(block))

\* C21: get_tools_description renders every registered tool exactly once,
\* in registry insertion order, as '- name: description' followed by an
\* indented 'Parameters: k: hint, ...' line only when the tool has
\* parameters, and two calls on the same registry return the same text.
C21_DescriptionStable ==
    /\ \A k \in 1..Len(described) :
           /\ RenderedInOrder(described[k], registry, 1)
           /\ \A i \in 1..Len(registry) :
                  Cardinality(Occurrences(described[k],
                                          "- " \o registry[i].name \o ": ")) = 1
           /\ (registry # <<>>) => StartsWithAt(described[k], 1, "- ")
    /\ \A k, l \in 1..Len(described) : described[k] = described[l]

\* the program's own registry has been described twice
C21_Witness ==
    /\ registry = tools
    /\ Len(described) = 2
    /\ Contains(described[2], "\n  Parameters: query: Natural language search query")


\* the step at which the second LLM call of a turn fails
SecondCallFails ==
    /\ pc = "llm2"
    /\ pc' = "idle"
    /\ outcome'.kind = "raised"
    /\ outcome'.source = "llm"

\* C22 (step): from the first logged call of a turn to the step at which the
\* second LLM call fails the session log is not touched, and the failing
\* step, which ends a tool round that logged at least one entry, hands the
\* caller no execution log.
C22_FailureStep ==
    /\ (pc \in {"exec", "dispatch", "tool", "llm2"} /\ outcome'.kind # "returned")
           => tool_calls' = tool_calls
    /\ SecondCallFails =>
           /\ execution_logs # <<>>
           /\ Len(results) = Len(calls)
           /\ outcome'.execution_logs = <<>>
           /\ tool_calls' = tool_calls

\* C22: when the second LLM call of a turn fails after the tools were
\* executed, the log entries created for that turn are discarded with the
\* exception: the session execution log is the same after the failed turn as
\* before it, although the tools ran.
C22_FailedSecondCallDropsLogs == [][C22_FailureStep]_vars

\* a first turn ran a callable to its end and logged it, the second LLM call
\* failed, and the session log is still empty
C22_Witness ==
    /\ pc = "idle"
    /\ turns = 1
    /\ outcome.kind = "raised"
    /\ outcome.source = "llm"
    /\ Len(llm_replies) = 1
    /\ Len(execution_logs) = 1
    /\ Len(invoked) = 1
    /\ invoked[1].out.kind = "text"
    /\ tool_calls = <<>>
    /\ messages[2] = Message("assistant", "Error: " \o outcome.error)


\* what the chat handler stores as the assistant entry of a finished turn:
\* the answer process_message returned, or the text of its error
StoredAnswer ==
    IF outcome.kind = "returned" THEN outcome.response
    ELSE "Error: " \o outcome.error

\* C23: between turns, after any sequence of successful and failed turns,
\* the transcript has even length, alternates user then assistant, has no
\* system-role entry, and its last two entries are the user text of the last
\* turn and its final answer or error text; after a tool round the stored
\* answer is the second response, and neither the tool result text nor the
\* prompt that carried it to the LLM is an entry of the transcript.
C23_TranscriptHoldsTurnsOnly ==
    pc = "idle" =>
        /\ Len(messages) % 2 = 0
        /\ \A i \in 1..Len(messages) :
               /\ messages[i].role = (IF i % 2 = 1 THEN "user" ELSE "assistant")
               /\ messages[i].role # "system"
               /\ DOMAIN messages[i] = {"role", "content"}
        /\ messages # <<>> =>
               /\ messages[Len(messages) - 1] = Message("user", user_message)
               /\ messages[Len(messages)] = Message("assistant", StoredAnswer)
               /\ (outcome.kind = "returned" /\ outcome.has_tool_results) =>
                      /\ StoredAnswer = llm_replies[2]
                      /\ \A i \in 1..Len(messages) :
                             /\ messages[i].content # outcome.tool_results
                             /\ messages[i].content # ToolResultPrompt(outcome.tool_results)

\* a failed turn and then a turn with a tool round have completed: four
\* entries, the error text of the first turn and the second response of the
\* second, which is not its first-pass response
C23_Witness ==
    /\ pc = "idle"
    /\ Len(messages) = 4
    /\ messages[2].content = "Error: Gemini service not initialized. Check API key."
    /\ outcome.kind = "returned"
    /\ outcome.has_tool_results
    /\ outcome.tool_results # ""
    /\ messages[4].content = llm_replies[2]
    /\ messages[4].content # initial_response


(***************************************************************************)
(* Properties of the parser's handling of argument bodies.                 *)
(***************************************************************************)
\* an argument body that is not blank and in which the key=value pattern
\* finds nothing
Unsplit(params_str) ==
    /\ Strip(params_str, SpaceChars) # ""
    /\ ParamMatches(params_str, 1) = <<>>

\* parse_tool_calls has returned the calls of the first response: the loop
\* is about to start, or there was no call and the turn is over
ParseJustReturned ==
    /\ Len(llm_replies) = 1
    /\ \/ pc = "exec" /\ idx = 1
       \/ pc = "idle" /\ outcome.kind = "returned" /\ ~outcome.has_tool_results

\* C24: a call that matches the marker/name/parentheses pattern but whose
\* argument body holds nothing the key=value pattern can split is not
\* skipped: the list parse_tool_calls returns has, at the place of the match,
\* an invocation of that name with empty arguments, and the callable the
\* dispatcher calls for it is called with no arguments.
C24_UnsplitBodyGivesEmptyArguments ==
    /\ ParseJustReturned =>
           LET ms == ToolMatches(llm_replies[1], 1)
           IN  /\ Len(calls) = Len(ms)
               /\ \A i \in 1..Len(ms) :
                      Unsplit(ms[i].params_str) =>
                          calls[i] = [tool_name |-> ms[i].tool_name,
                                      parameters |-> <<>>]
    /\ \A k \in 1..Len(invoked) :
           calls[invoked[k].idx].parameters = <<>> =>
               /\ invoked[k].tool_name = calls[invoked[k].idx].tool_name
               /\ invoked[k].kwargs = <<>>

\* the reply asked for a route with a blank before '=': the callable ran
\* with no argument and compared all routes instead of reporting the route
\* as unknown
C24_Witness ==
    /\ pc = "idle"
    /\ outcome.kind = "returned"
    /\ initial_response = "TOOL_CALL: analyze_route_performance(route = \"Route Z\")"
    /\ Unsplit(ToolMatches(initial_response, 1)[1].params_str)
    /\ calls = <<[tool_name |-> "analyze_route_performance", parameters |-> <<>>]>>
    /\ Len(invoked) = 1
    /\ invoked[1].kwargs = <<>>
    /\ invoked[1].out = [kind |-> "text", text |-> "Total Shipments: 500"]


\* a text without its quote characters
RECURSIVE Unquoted(_)
Unquoted(s) ==
    IF Len(s) <= 1 THEN (IF s \in QuoteChars THEN "" ELSE s)
    ELSE Unquoted(SubSeq(s, 1, Len(s) \div 2))
             \o Unquoted(SubSeq(s, Len(s) \div 2 + 1, Len(s)))

\* the call that writes its values in quotes, and the invocation it gives
QuotedCall ==
    "TOOL_CALL: analyze_by_time_period(month='NONE', year=\"007\", start_date= 2024-01-01 )"

QuotedCallParameters ==
    << <<"month", NoneValue>>, <<"year", IntValue(7)>>,
       <<"start_date", StrValue("2024-01-01")>> >>

\* the text handed to the parser, with the quoted call it begins with
\* written without quotes
BeginsWithQuotedCall == pieces # <<>> /\ pieces[1].text = QuotedCall

QuotesDropped ==
    Unquoted(QuotedCall)
        \o Join([i \in 1..(Len(pieces) - 1) |-> pieces[i + 1].text], "")

\* C25: quoting does not preserve the string type of an argument.  No
\* argument parse_tool_calls returns is a string of decimal digits only or a
\* string equal to 'none' in some letter case, quoted or not; the call with
\* month='NONE' and year="007" gives null and the integer 7; and the parser
\* ends on a text that begins with that call exactly as it ends on the same
\* text with the call written without its quotes.
C25_QuotingKeepsNoType ==
    /\ parsed.kind = "returned" =>
           /\ \A i \in 1..Len(parsed.calls) :
                  \A j \in 1..Len(parsed.calls[i].parameters) :
                      LET v == parsed.calls[i].parameters[j][2]
                      IN  v.t = "str" =>
                              ~DecimalDigitsOnly(v.s) /\ Lower(v.s) # "none"
           /\ BeginsWithQuotedCall =>
                  parsed.calls[1] =
                      [tool_name |-> "analyze_by_time_period",
                       parameters |-> QuotedCallParameters]
           /\ BeginsWithQuotedCall =>
                  LET text == QuotesDropped
                  IN  /\ Len(text) = Len(ParserText) - 4
                      /\ ~ParseRaises(text)
                      /\ parsed.calls = parse_tool_calls(text)
    /\ (parsed.kind = "raised" /\ BeginsWithQuotedCall) =>
           LET text == QuotesDropped
           IN  /\ Len(text) = Len(ParserText) - 4
               /\ ParseRaises(text)
               /\ parsed.error = ParseRaiseMessage(text)

\* the quoted call has been parsed next to a call that writes an integer
\* and a text without quotes
C25_Witness ==
    /\ parsed.kind = "returned"
    /\ Len(pieces) = 2
    /\ pieces[1].text = QuotedCall
    /\ Len(parsed.calls) = 2
    /\ parsed.calls[1].parameters = QuotedCallParameters
    /\ pieces[2].text = "TOOL_CALL: analyze_by_time_period(year=2024, month=\"Oct\")"
    /\ parsed.calls[2].parameters = << <<"year", IntValue(2024)>>, <<"month", StrValue("Oct")>> >>


\* the call with a closing parenthesis inside its quoted value, the call
\* without a closing parenthesis, and the call written over three lines
ParenthesisInValue ==
    "TOOL_CALL: search_shipments(query=\"late (traffic) on Route A\")"

Unclosed == "TOOL_CALL: get_statistical_summary(detail=\"full\" "

OverLines == "TOOL_CALL:\nanalyze_warehouse_performance(\n  warehouse=None\n)"

\* how often the character occurs in the text
CountChar(text, c) == Cardinality({i \in 1..Len(text) : CharAt(text, i) = c})

\* the piece begins with the marker
BeginsWithMarker(piece) == StartsWithAt(piece.text, 1, TOOL_CALL_MARKER)

\* C26: the argument body of a matched call ends at the first ')' after its
\* opening parenthesis.  No name, key or value parse_tool_calls returns holds
\* a ')', and there are no more invocations than closing parentheses in the
\* text; a ')' inside a quoted value cuts the value there and what follows it
\* is lost; a body runs across line breaks to its ')'; and a call written
\* after an unclosed one, its marker lying before the first ')', goes into
\* the body of the unclosed call and gives no invocation of its own.
C26_BodyEndsAtFirstParenthesis ==
    parsed.kind = "returned" =>
        /\ Len(parsed.calls) <= CountChar(ParserText, ")")
        /\ \A i \in 1..Len(parsed.calls) :
               /\ ~Contains(parsed.calls[i].tool_name, ")")
               /\ \A j \in 1..Len(parsed.calls[i].parameters) :
                      LET kv == parsed.calls[i].parameters[j]
                      IN  /\ ~Contains(kv[1], ")")
                          /\ kv[2].t = "str" => ~Contains(kv[2].s, ")")
        /\ (pieces # <<>> /\ pieces[1].text = ParenthesisInValue) =>
               parsed.calls[1] =
                   Invocation("search_shipments",
                              << <<"query", StrValue("late (traffic")>> >>)
        /\ (pieces # <<>> /\ pieces[1].text = OverLines) =>
               parsed.calls[1] =
                   Invocation("analyze_warehouse_performance",
                              << <<"warehouse", NoneValue>> >>)
        /\ (/\ Len(pieces) = 2
            /\ pieces[1].text = Unclosed
            /\ BeginsWithMarker(pieces[2])
            /\ Contains(pieces[2].text, ")")) =>
               /\ Len(parsed.calls) = 1
               /\ parsed.calls[1].tool_name = "get_statistical_summary"

\* the unclosed call was followed by a whole call, whose marker and name are
\* now in the value of the first call's argument
C26_Witness ==
    /\ parsed.kind = "returned"
    /\ Len(pieces) = 2
    /\ pieces[1].text = Unclosed
    /\ pieces[2].text = "TOOL_CALL: get_dataset_summary()"
    /\ parsed.calls =
           <<Invocation("get_statistical_summary",
                        << <<"detail",
                             StrValue("full\" TOOL_CALL: get_dataset_summary(")>> >>)>>

=============================================================================
